---------------------------- MODULE Spec2Model ----------------------------
(***************************************************************************)
(* Model of auction_optimization.py: the penalty potential, the analytical *)
(* oracle and the driver main().                                           *)
(*                                                                         *)
(* Real numbers are exact rationals [num, den] in lowest terms, den > 0.   *)
(* Two specifications live in this module:                                 *)
(*   SpecFn  calls potential and analytical_optimal_solution on bounded    *)
(*           inputs (a caller of the two pure functions);                  *)
(*   Spec    runs main() on a bounded --valuations string and --mu.        *)
(***************************************************************************)
EXTENDS Integers, Sequences, FiniteSets

\* ------------------------------------------------------------------ bounds
\* Largest number of bidders the caller of the pure functions passes.
MaxN == 2
\* Largest number of repeated calls of the oracle on the same valuations.
MaxCalls == 2
\* Longest --valuations string handed to main().
MaxStrLen == 5
\* Most digits in a row in a --valuations string (keeps every product of the
\* exact arithmetic inside the model checker's integers).
MaxDigits == 3

\* A local name of main() holds Unassigned until it is assigned, then
\* Bound(value); ValueOf reads it. Python's None, where an array is expected,
\* is the array of no entries (every real array here has 2n >= 2 entries).
Unassigned == <<>>
Bound(val) == <<val>>
ValueOf(name) == name[1]
None == <<>>
\* The exception that ended main(), NoError while there is none.
NoError == "NoError"

\* ------------------------------------------------- exact real arithmetic
Abs(a) == IF a < 0 THEN -a ELSE a

RECURSIVE GCD(_, _)
GCD(a, b) == IF b = 0 THEN a ELSE GCD(b, a % b)

\* The rational a/b (b > 0) in lowest terms.
Rat(a, b) ==
    LET g == GCD(Abs(a), b)
    IN  IF a = 0 THEN [num |-> 0, den |-> 1]
        ELSE [num |-> a \div g, den |-> b \div g]

Zero == Rat(0, 1)
One == Rat(1, 1)
Two == Rat(2, 1)

RAdd(a, b) == Rat(a.num * b.den + b.num * a.den, a.den * b.den)
RNeg(a) == [num |-> -a.num, den |-> a.den]
RSub(a, b) == RAdd(a, RNeg(b))
RMul(a, b) == Rat(a.num * b.num, a.den * b.den)
\* a / b for b > 0.
RDiv(a, b) == Rat(a.num * b.den, a.den * b.num)
RLeq(a, b) == a.num * b.den <= b.num * a.den
RLt(a, b) == a.num * b.den < b.num * a.den
RAbs(a) == [num |-> Abs(a.num), den |-> a.den]
RSq(a) == RMul(a, a)

\* np.maximum(0, a)
np_maximum0(a) == IF RLeq(a, Zero) THEN Zero ELSE a

\* np.sum over a 1D array
RECURSIVE np_sum(_)
np_sum(s) == IF s = <<>> THEN Zero ELSE RAdd(s[1], np_sum(Tail(s)))

\* np.zeros(n), np.ones(n)
np_zeros(n) == [i \in 1..n |-> Zero]
np_ones(n) == [i \in 1..n |-> One]

\* ------------------------------------------------------------- potential
\* x = z[:n], p = z[n:]
AllocPart(z, n) == SubSeq(z, 1, n)
PayPart(z, n) == SubSeq(z, n + 1, Len(z))

revenue_term(p) == RNeg(np_sum(p))

penalty_alloc_bounds(x) ==
    RAdd(np_sum([i \in 1..Len(x) |-> RSq(np_maximum0(RNeg(x[i])))]),
         np_sum([i \in 1..Len(x) |-> RSq(np_maximum0(RSub(x[i], One)))]))

\* The total-allocation term without its hinge: under-allocation is punished too.
penalty_total_alloc_NoHinge(x) == RSq(RSub(np_sum(x), One))

penalty_total_alloc(x) == RSq(np_maximum0(RSub(np_sum(x), One)))

penalty_payment_nonneg(p) ==
    np_sum([i \in 1..Len(p) |-> RSq(np_maximum0(RNeg(p[i])))])

penalty_ir(x, p, v) ==
    np_sum([i \in 1..Len(p) |->
               RSq(np_maximum0(RSub(p[i], RMul(v[i], x[i]))))])

\* penalty without the total-allocation term.
penalty_NoTotal(z, v) ==
    LET n == Len(v)
        x == AllocPart(z, n)
        p == PayPart(z, n)
    IN  RAdd(RAdd(penalty_alloc_bounds(x), penalty_payment_nonneg(p)),
             penalty_ir(x, p, v))

\* The local `penalty` of potential at its return.
penalty(z, v) ==
    LET n == Len(v)
        x == AllocPart(z, n)
        p == PayPart(z, n)
    IN  RAdd(RAdd(RAdd(penalty_alloc_bounds(x), penalty_total_alloc(x)),
                  penalty_payment_nonneg(p)),
             penalty_ir(x, p, v))

potential(z, v, mu) ==
    RAdd(revenue_term(PayPart(z, Len(v))),
         RMul(RDiv(mu, Two), penalty(z, v)))

\* ------------------------------------------- analytical_optimal_solution
\* The scan keeping the smallest entry (argmin), and the scan keeping the
\* last of the greatest entries.
RECURSIVE ArgmaxScan_Min(_, _, _)
ArgmaxScan_Min(v, k, best) ==
    IF k > Len(v) THEN best
    ELSE IF RLt(v[k], v[best]) THEN ArgmaxScan_Min(v, k + 1, k)
    ELSE ArgmaxScan_Min(v, k + 1, best)

RECURSIVE ArgmaxScan_Last(_, _, _)
ArgmaxScan_Last(v, k, best) ==
    IF k > Len(v) THEN best
    ELSE IF RLeq(v[best], v[k]) THEN ArgmaxScan_Last(v, k + 1, k)
    ELSE ArgmaxScan_Last(v, k + 1, best)

\* np.argmax: scan left to right, keep the first strictly greatest entry.
RECURSIVE ArgmaxScan(_, _, _)
ArgmaxScan(v, k, best) ==
    IF k > Len(v) THEN best
    ELSE IF RLt(v[best], v[k]) THEN ArgmaxScan(v, k + 1, k)
    ELSE ArgmaxScan(v, k + 1, best)

np_argmax(v) == ArgmaxScan(v, 2, 1)

\* The oracle with the two assignments of lines 54-55 swapped.
analytical_optimal_solution_Swapped(v) ==
    LET n == Len(v)
        i_star == np_argmax(v)
        x_opt == [np_zeros(n) EXCEPT ![i_star] = v[i_star]]
        p_opt == [np_zeros(n) EXCEPT ![i_star] = One]
    IN  x_opt \o p_opt

analytical_optimal_solution(v) ==
    LET n == Len(v)
        i_star == np_argmax(v)
        x_opt == [np_zeros(n) EXCEPT ![i_star] = One]
        p_opt == [np_zeros(n) EXCEPT ![i_star] = v[i_star]]
    IN  x_opt \o p_opt


\* ------------------------------------------------------------ the state
VARIABLES
    \* caller of the pure functions (SpecFn)
    fn_v,           \* valuation vector passed as v
    fn_mu,          \* penalty parameter passed as mu
    fn_z,           \* solution vector currently held by the caller
    pot_calls,      \* log of potential calls: argument z, return value, local penalty
    oracle_rets,    \* log of the vectors analytical_optimal_solution returned
    fn_phase,       \* position of the caller
    \* main() (Spec)
    valuations,     \* args.valuations, a string (sequence of characters)
    mu,             \* args.mu
    pc,             \* position in main()
    v,              \* parsed valuation array
    n,              \* len(v)
    potential_func, \* the lambda of line 84: the v and mu it closes over
    z0,             \* initial guess
    z_sd,           \* steepest_descent's result
    revenue_sd,
    z_newton,       \* newton's result, None after a failure
    revenue_newton,
    z_opt,
    optimal_revenue,
    calls,          \* log of solver invocations, in order
    output,         \* lines printed, in order
    error           \* exception that ended main(), None when there is none

fn_vars == <<fn_v, fn_mu, fn_z, pot_calls, oracle_rets, fn_phase>>
main_vars == <<valuations, mu, pc, v, n, potential_func, z0, z_sd, revenue_sd,
               z_newton, revenue_newton, z_opt, optimal_revenue, calls,
               output, error>>
vars == <<fn_vars, main_vars>>

\* -------------------------------------------- caller of the pure functions
Half == Rat(1, 2)

\* Valuations and penalty parameters the caller passes.
FnValuations == {Rat(k, 1) : k \in {-1, 0, 1, 2}}
FnMus == {Rat(-1, 1), Zero, Rat(100, 1)}
\* Allocations of the starting vectors, and the values one coordinate is set to.
XGrid == {Zero, Half, One}
PGrid == {Rat(k, 2) : k \in 0..4}
PerturbGrid == {Rat(k, 2) : k \in -1..5}

\* All sequences whose i-th entry is drawn from S[i].
RECURSIVE SeqProduct(_)
SeqProduct(S) ==
    IF S = <<>> THEN {<<>>}
    ELSE {<<h>> \o t : h \in S[1], t \in SeqProduct(Tail(S))}

\* The constraints of the auction problem, as the comments of potential state them.
Feasible(z, vv) ==
    LET m == Len(vv)
        x == AllocPart(z, m)
        p == PayPart(z, m)
    IN  /\ Len(z) = 2 * m
        /\ \A i \in 1..m : RLeq(Zero, x[i]) /\ RLeq(x[i], One)
        /\ RLeq(np_sum(x), One)
        /\ \A i \in 1..m : RLeq(Zero, p[i])
        /\ \A i \in 1..m : RLeq(p[i], RMul(vv[i], x[i]))

\* Feasible starting vectors on the grid for valuations vv.
StartVectors(vv) ==
    LET m == Len(vv)
        xs == {x \in [1..m -> XGrid] : RLeq(np_sum(x), One)}
    IN  UNION {{x \o p : p \in SeqProduct(
                   [i \in 1..m |->
                       {q \in PGrid : RLeq(q, RMul(vv[i], x[i]))}])} : x \in xs}

FnIdle ==
    /\ fn_v = <<>> /\ fn_mu = Zero /\ fn_z = <<>>
    /\ pot_calls = <<>> /\ oracle_rets = <<>> /\ fn_phase = "idle"

InitFnVars ==
    /\ \E m \in 1..MaxN : fn_v \in [1..m -> FnValuations]
    /\ fn_mu \in FnMus
    /\ fn_z \in StartVectors(fn_v)
    /\ pot_calls = <<>>
    /\ oracle_rets = <<>>
    /\ fn_phase = "input"

\* The caller evaluates potential(fn_z, fn_v, mu=fn_mu).
CallPotential ==
    /\ fn_phase \in {"input", "perturbed", "oracle"}
    /\ pot_calls' = Append(pot_calls,
                           [z |-> fn_z,
                            ret |-> potential(fn_z, fn_v, fn_mu),
                            penalty |-> penalty(fn_z, fn_v)])
    /\ fn_phase' = CASE fn_phase = "input" -> "evaluated"
                     [] fn_phase = "perturbed" -> "reevaluated"
                     [] fn_phase = "oracle" -> "oracle_evaluated"
    /\ UNCHANGED <<fn_v, fn_mu, fn_z, oracle_rets, main_vars>>

\* The caller changes one coordinate of the vector it evaluated.
Perturb(c, val) ==
    /\ fn_phase = "evaluated"
    /\ c \in 1..Len(fn_z)
    /\ val # fn_z[c]
    /\ fn_z' = [fn_z EXCEPT ![c] = val]
    /\ fn_phase' = "perturbed"
    /\ UNCHANGED <<fn_v, fn_mu, pot_calls, oracle_rets, main_vars>>

\* The caller asks the oracle for the optimum of fn_v (possibly again).
CallAnalytical ==
    /\ fn_phase \in {"input", "oracle"}
    /\ Len(oracle_rets) < MaxCalls
    /\ oracle_rets' = Append(oracle_rets, analytical_optimal_solution(fn_v))
    /\ fn_z' = analytical_optimal_solution(fn_v)
    /\ fn_phase' = "oracle"
    /\ UNCHANGED <<fn_v, fn_mu, pot_calls, main_vars>>


\* ----------------------------------------------------- parsing (line 77)
\* Characters a --valuations string is made of.
Alphabet == {"1", "2", "-", " ", "a", ","}
Digits == {"1", "2"}
DigitValue(c) == IF c = "1" THEN 1 ELSE 2

\* str.split(','): the tokens between the commas (always at least one).
RECURSIVE SplitFrom(_, _)
SplitFrom(s, tok) ==
    IF s = <<>> THEN <<tok>>
    ELSE IF s[1] = "," THEN <<tok>> \o SplitFrom(Tail(s), <<>>)
    ELSE SplitFrom(Tail(s), Append(tok, s[1]))

split(s) == SplitFrom(s, <<>>)

\* str.strip(): leading and trailing blanks removed.
RECURSIVE lstrip(_)
lstrip(s) == IF s # <<>> /\ s[1] = " " THEN lstrip(Tail(s)) ELSE s

RECURSIVE rstrip(_)
rstrip(s) ==
    IF s # <<>> /\ s[Len(s)] = " " THEN rstrip(SubSeq(s, 1, Len(s) - 1)) ELSE s

strip(s) == rstrip(lstrip(s))

\* Value of a string of digits read left to right, starting from acc.
RECURSIVE DigitsValue(_, _)
DigitsValue(s, acc) ==
    IF s = <<>> THEN acc
    ELSE DigitsValue(Tail(s), 10 * acc + DigitValue(s[1]))

AllDigits(s) == s # <<>> /\ \A i \in 1..Len(s) : s[i] \in Digits

\* float reading every token it cannot parse as 0.
float_Lenient(tok) ==
    IF AllDigits(tok) THEN <<Rat(DigitsValue(tok, 0), 1)>>
    ELSE IF tok # <<>> /\ tok[1] = "-" /\ AllDigits(Tail(tok))
         THEN <<Rat(-DigitsValue(Tail(tok), 0), 1)>>
    ELSE <<Zero>>

\* float(tok): <<the number>>, or <<>> where float raises ValueError.
float(tok) ==
    IF AllDigits(tok) THEN <<Rat(DigitsValue(tok, 0), 1)>>
    ELSE IF tok # <<>> /\ tok[1] = "-" /\ AllDigits(Tail(tok))
         THEN <<Rat(-DigitsValue(Tail(tok), 0), 1)>>
    ELSE <<>>

\* ------------------------------------------------------ external solvers
\* What a solver may hand back for n bidders: the item given to one bidder
\* at some price, or the starting point itself.
SolverPayments == {Zero, Two}
SolverOutputs(m, start) ==
    {start} \cup
    {[np_zeros(m) EXCEPT ![k] = One] \o [np_zeros(m) EXCEPT ![k] = c] :
        k \in 1..m, c \in SolverPayments}

\* ------------------------------------------------------------------ main
MainMus == {Rat(-1, 1), Zero, Rat(100, 1)}
DigitRun(s, i, len) == \A j \in i..(i + len - 1) : s[j] \in Digits
Strings ==
    {s \in UNION {[1..k -> Alphabet] : k \in 0..MaxStrLen} :
        \A i \in 1..(Len(s) - MaxDigits) : ~DigitRun(s, i, MaxDigits + 1)}

Line(tag, val) == [line |-> tag, value |-> val]

MainIdle ==
    /\ valuations = <<>> /\ mu = Zero /\ pc = "idle"
    /\ v = Unassigned /\ n = Unassigned /\ potential_func = Unassigned
    /\ z0 = Unassigned /\ z_sd = Unassigned /\ revenue_sd = Unassigned
    /\ z_newton = Unassigned /\ revenue_newton = Unassigned
    /\ z_opt = Unassigned /\ optimal_revenue = Unassigned
    /\ calls = <<>> /\ output = <<>> /\ error = NoError

\* After parser.parse_args() (line 73): no local of main is assigned yet.
InitMainVars ==
    /\ valuations \in Strings
    /\ mu \in MainMus
    /\ pc = "parse"
    /\ v = Unassigned /\ n = Unassigned /\ potential_func = Unassigned
    /\ z0 = Unassigned /\ z_sd = Unassigned /\ revenue_sd = Unassigned
    /\ z_newton = Unassigned /\ revenue_newton = Unassigned
    /\ z_opt = Unassigned /\ optimal_revenue = Unassigned
    /\ calls = <<>> /\ output = <<>> /\ error = NoError

\* Lines 75-81: parse the valuations, or raise ValueError.
ParseValuations ==
    /\ pc = "parse"
    /\ LET toks == split(valuations)
           parsed == [i \in 1..Len(toks) |-> float(strip(toks[i]))]
       IN  IF \E i \in 1..Len(toks) : parsed[i] = <<>>
           THEN /\ error' = "ValueError"
                /\ pc' = "failed"
                /\ UNCHANGED <<v, n>>
           ELSE /\ v' = Bound([i \in 1..Len(toks) |-> parsed[i][1]])
                /\ n' = Bound(Len(toks))
                /\ pc' = "guess"
                /\ UNCHANGED error
    /\ UNCHANGED <<valuations, mu, potential_func, z0, z_sd, revenue_sd,
                   z_newton, revenue_newton, z_opt, optimal_revenue, calls,
                   output, fn_vars>>

\* x0 = np.ones(n) / n, p0 = np.zeros(n), z0 = np.concatenate([x0, p0])
InitialGuess(m) ==
    [i \in 1..m |-> RDiv(np_ones(m)[i], Rat(m, 1))] \o np_zeros(m)

\* Lines 83-93: bind the objective, build and print the initial guess.
BuildInitialGuess ==
    /\ pc = "guess"
    /\ potential_func' = Bound([v |-> ValueOf(v), mu |-> mu])
    /\ z0' = Bound(InitialGuess(ValueOf(n)))
    /\ output' = output \o <<Line("banner", <<>>),
                             Line("valuations", ValueOf(v)),
                             Line("initial_guess", ValueOf(z0'))>>
    /\ pc' = "sd"
    /\ UNCHANGED <<valuations, mu, v, n, z_sd, revenue_sd, z_newton,
                   revenue_newton, z_opt, optimal_revenue, calls, error,
                   fn_vars>>

\* potential_func(z): the lambda of line 84 applied to z.
ApplyObjective(f, z) == potential(z, f.v, f.mu)

\* The objective and starting point handed to steepest_descent (lines 97-98).
SteepestDescentArgs ==
    [objective |-> ValueOf(potential_func), initial |-> ValueOf(z0)]

\* Lines 95-102: steepest descent, which always returns some vector.
RunSteepestDescent ==
    /\ pc = "sd"
    /\ \E r \in SolverOutputs(ValueOf(n), ValueOf(z0)) :
          /\ calls' = Append(calls, [fn |-> "steepest_descent",
                                     objective |-> SteepestDescentArgs.objective,
                                     initial |-> SteepestDescentArgs.initial,
                                     raised |-> FALSE,
                                     ret |-> r])
          /\ z_sd' = Bound(r)
          /\ revenue_sd' = Bound(np_sum(PayPart(r, ValueOf(n))))
          /\ output' = output \o
                 <<Line("sd_header", <<>>), Line("sd_solution", r),
                   Line("sd_potential",
                        ApplyObjective(ValueOf(potential_func), r)),
                   Line("sd_revenue", ValueOf(revenue_sd'))>>
    /\ pc' = "newton"
    /\ UNCHANGED <<valuations, mu, v, n, potential_func, z0, z_newton,
                   revenue_newton, z_opt, optimal_revenue, error, fn_vars>>

\* newton started from steepest descent's result instead of z0.
NewtonArgs_WarmStart ==
    [objective |-> ValueOf(potential_func), initial |-> ValueOf(z_sd)]

\* The objective and starting point handed to newton (lines 107-108).
NewtonArgs ==
    [objective |-> ValueOf(potential_func), initial |-> ValueOf(z0)]

\* Lines 104-115: Newton's method, which returns a vector or raises.
RunNewton ==
    /\ pc = "newton"
    /\ \/ \E r \in SolverOutputs(ValueOf(n), ValueOf(z0)) :
             /\ calls' = Append(calls, [fn |-> "newton",
                                        objective |-> NewtonArgs.objective,
                                        initial |-> NewtonArgs.initial,
                                        raised |-> FALSE,
                                        ret |-> r])
             /\ z_newton' = Bound(r)
             /\ revenue_newton' = Bound(np_sum(PayPart(r, ValueOf(n))))
             /\ output' = output \o
                    <<Line("newton_header", <<>>), Line("newton_solution", r),
                      Line("newton_potential",
                           ApplyObjective(ValueOf(potential_func), r)),
                      Line("newton_revenue", ValueOf(revenue_newton'))>>
       \/ /\ calls' = Append(calls, [fn |-> "newton",
                                     objective |-> NewtonArgs.objective,
                                     initial |-> NewtonArgs.initial,
                                     raised |-> TRUE,
                                     ret |-> None])
          /\ z_newton' = Bound(None)
          /\ output' = output \o
                 <<Line("newton_header", <<>>), Line("newton_failed", <<>>)>>
          /\ UNCHANGED revenue_newton
    /\ pc' = "analytical"
    /\ UNCHANGED <<valuations, mu, v, n, potential_func, z0, z_sd, revenue_sd,
                   z_opt, optimal_revenue, error, fn_vars>>

\* Lines 117-122: the analytical optimum and its revenue.
ComputeAnalytical ==
    /\ pc = "analytical"
    /\ z_opt' = Bound(analytical_optimal_solution(ValueOf(v)))
    /\ optimal_revenue' = Bound(np_sum(PayPart(ValueOf(z_opt'), ValueOf(n))))
    /\ output' = output \o
           <<Line("analytical_header", <<>>),
             Line("analytical_solution", ValueOf(z_opt')),
             Line("optimal_revenue", ValueOf(optimal_revenue'))>>
    /\ pc' = "compare"
    /\ UNCHANGED <<valuations, mu, v, n, potential_func, z0, z_sd, revenue_sd,
                   z_newton, revenue_newton, calls, error, fn_vars>>

\* abs(optimal_revenue - revenue)
RevenueError(optimal, revenue) == RAbs(RSub(optimal, revenue))

\* The test of line 127 always taking the Newton branch.
NewtonProducedSolution_Always == TRUE

\* The test of line 127: z_newton is not None.
NewtonProducedSolution == ValueOf(z_newton) # None

\* Lines 124-130: the revenue errors; reading an unassigned name raises.
Compare ==
    /\ pc = "compare"
    /\ LET head == output \o
                   <<Line("comparison_header", <<>>),
                     Line("sd_error", RevenueError(ValueOf(optimal_revenue),
                                                   ValueOf(revenue_sd)))>>
       IN  IF NewtonProducedSolution
           THEN IF revenue_newton = Unassigned
                THEN /\ output' = head
                     /\ error' = "NameError"
                     /\ pc' = "failed"
                ELSE /\ output' = Append(head,
                            Line("newton_error",
                                 RevenueError(ValueOf(optimal_revenue),
                                              ValueOf(revenue_newton))))
                     /\ pc' = "done"
                     /\ UNCHANGED error
           ELSE /\ output' = Append(head, Line("newton_no_solution", <<>>))
                /\ pc' = "done"
                /\ UNCHANGED error
    /\ UNCHANGED <<valuations, mu, v, n, potential_func, z0, z_sd, revenue_sd,
                   z_newton, revenue_newton, z_opt, optimal_revenue, calls,
                   fn_vars>>

\* --------------------------------------------------------- specifications
Init == InitMainVars /\ FnIdle

Next ==
    \/ ParseValuations
    \/ BuildInitialGuess
    \/ RunSteepestDescent
    \/ RunNewton
    \/ ComputeAnalytical
    \/ Compare

Spec == Init /\ [][Next]_vars

InitFn == InitFnVars /\ MainIdle

NextFn ==
    \/ CallPotential
    \/ \E c \in 1..(2 * MaxN), val \in PerturbGrid : Perturb(c, val)
    \/ CallAnalytical

SpecFn == InitFn /\ [][NextFn]_vars


\* ------------------------------------------------------------- properties
\* Indices at which vv attains its maximum, and that maximum.
MaxIndices(vv) ==
    {i \in 1..Len(vv) : \A j \in 1..Len(vv) : RLeq(vv[j], vv[i])}
MaxValue(vv) == vv[CHOOSE i \in MaxIndices(vv) : TRUE]
LowestIndex(S) == CHOOSE i \in S : \A j \in S : i <= j

\* z gives the whole item to bidder i at price vv[i] and nothing to anyone else.
Awards(z, vv, i) ==
    /\ Len(z) = 2 * Len(vv)
    /\ \A j \in 1..Len(vv) :
          /\ z[j] = IF j = i THEN One ELSE Zero
          /\ z[Len(vv) + j] = IF j = i THEN vv[i] ELSE Zero

\* C1: with a unique maximum at i*, analytical_optimal_solution returns a vector
\* of length 2n with x[i*] = 1, p[i*] = v[i*] and 0 everywhere else.
C1_UniqueMaxAward ==
    \A k \in 1..Len(oracle_rets) :
        Cardinality(MaxIndices(fn_v)) = 1 =>
            \A i \in MaxIndices(fn_v) : Awards(oracle_rets[k], fn_v, i)

C1_Witness ==
    /\ oracle_rets # <<>>
    /\ Len(fn_v) = 2
    /\ MaxIndices(fn_v) = {2}
    /\ oracle_rets[1][2] = One

\* C2: with two or more bidders at the maximum, analytical_optimal_solution
\* awards the item to the lowest tied index and to nobody else, and every
\* repeated call with the same valuations returns the same vector.
C2_TieLowestIndex ==
    \A k \in 1..Len(oracle_rets) :
        Cardinality(MaxIndices(fn_v)) >= 2 =>
            /\ Awards(oracle_rets[k], fn_v, LowestIndex(MaxIndices(fn_v)))
            /\ oracle_rets[k] = oracle_rets[1]

C2_Witness ==
    /\ Len(oracle_rets) = MaxCalls
    /\ Cardinality(MaxIndices(fn_v)) >= 2
    /\ fn_v[1] = Two
    /\ oracle_rets[MaxCalls][1] = One

\* C3: on a fully feasible z, potential returns exactly -sum(p) for every mu:
\* each of the four penalty terms is zero.
C3_FeasiblePotential ==
    \A k \in 1..Len(pot_calls) :
        LET z == pot_calls[k].z
            x == AllocPart(z, Len(fn_v))
            p == PayPart(z, Len(fn_v))
        IN  Feasible(z, fn_v) =>
                /\ pot_calls[k].ret = RNeg(np_sum(p))
                /\ pot_calls[k].penalty = Zero
                /\ penalty_alloc_bounds(x) = Zero
                /\ penalty_total_alloc(x) = Zero
                /\ penalty_payment_nonneg(p) = Zero
                /\ penalty_ir(x, p, fn_v) = Zero

C3_Witness ==
    /\ fn_phase = "evaluated"
    /\ Feasible(pot_calls[1].z, fn_v)
    /\ fn_mu = Rat(100, 1)
    /\ pot_calls[1].ret = Rat(-1, 2)
    /\ RLt(np_sum(AllocPart(fn_z, Len(fn_v))), One)

\* The single coordinate in which z2 differs from z1 crosses a constraint
\* boundary: x_i below 0, x_i above 1, x_i raised so that sum(x) exceeds 1,
\* p_i below 0, or p_i above v_i * x_i.
Crosses(z1, z2, vv) ==
    LET m == Len(vv)
        x2 == AllocPart(z2, m)
        p2 == PayPart(z2, m)
        changed == {c \in 1..Len(z1) : z1[c] # z2[c]}
    IN  /\ Cardinality(changed) = 1
        /\ \A c \in changed :
              IF c <= m
              THEN \/ RLt(x2[c], Zero)
                   \/ RLt(One, x2[c])
                   \/ RLt(z1[c], x2[c]) /\ RLt(One, np_sum(x2))
              ELSE \/ RLt(p2[c - m], Zero)
                   \/ RLt(RMul(vv[c - m], x2[c - m]), p2[c - m])

\* C4: changing one coordinate of a feasible z across a constraint boundary
\* makes the penalty strictly positive, hence strictly greater than before.
C4_CrossingPenalised ==
    fn_phase = "reevaluated" =>
        (Feasible(pot_calls[1].z, fn_v)
            /\ Crosses(pot_calls[1].z, pot_calls[2].z, fn_v)
         => /\ RLt(Zero, pot_calls[2].penalty)
            /\ RLt(pot_calls[1].penalty, pot_calls[2].penalty))

C4_Witness ==
    /\ fn_phase = "reevaluated"
    /\ Len(fn_v) = 2
    /\ Feasible(pot_calls[1].z, fn_v)
    /\ Crosses(pot_calls[1].z, pot_calls[2].z, fn_v)
    /\ \A i \in 1..2 : RLeq(Zero, fn_z[i]) /\ RLeq(fn_z[i], One)
    /\ RLt(One, np_sum(AllocPart(fn_z, 2)))
    /\ Feasible([fn_z EXCEPT ![1] = Zero], fn_v)

\* C10: for non-negative valuations the oracle's vector is feasible, all four
\* penalty terms vanish on it, and its potential is -max(v) for every mu.
C10_OracleFeasible ==
    (fn_phase = "oracle_evaluated" /\ \A i \in 1..Len(fn_v) : RLeq(Zero, fn_v[i]))
    => LET call == pot_calls[Len(pot_calls)]
       IN  /\ call.z = oracle_rets[Len(oracle_rets)]
           /\ Feasible(call.z, fn_v)
           /\ call.penalty = Zero
           /\ call.ret = RNeg(MaxValue(fn_v))

C10_Witness ==
    /\ fn_phase = "oracle_evaluated"
    /\ fn_v = <<One, Two>>
    /\ fn_mu = Rat(100, 1)
    /\ pot_calls[Len(pot_calls)].ret = Rat(-2, 1)

\* ------------------------------------------------- properties of main()
HasLine(tag) == \E i \in 1..Len(output) : output[i].line = tag

\* A numeral: blanks, an optional minus sign, one or more digits, blanks.
IsNumeral(t) ==
    \E i \in 1..Len(t), j \in 1..Len(t) :
        /\ i <= j
        /\ \A k \in 1..(i - 1) : t[k] = " "
        /\ \A k \in (j + 1)..Len(t) : t[k] = " "
        /\ \/ \A k \in i..j : t[k] \in Digits
           \/ /\ t[i] = "-"
              /\ i < j
              /\ \A k \in (i + 1)..j : t[k] \in Digits

\* The comma-separated tokens of s: the maximal comma-free stretches.
TokensOf(s) ==
    {SubSeq(s, i, j) : <<i, j>> \in
        {ij \in (1..(Len(s) + 1)) \X (0..Len(s)) :
            /\ ij[1] <= ij[2] + 1
            /\ \A k \in ij[1]..ij[2] : s[k] # ","
            /\ (ij[1] = 1 \/ s[ij[1] - 1] = ",")
            /\ (ij[2] = Len(s) \/ s[ij[2] + 1] = ",")}}

HasNonNumber(s) == \E t \in TokensOf(s) : ~IsNumeral(t)

\* C5: a valuations string with a token that is not a number ends the run
\* with a parse error before the initial guess is built: no solver is
\* invoked and nothing is printed.
C5_ParseErrorStopsRun ==
    (pc # "parse" /\ HasNonNumber(valuations)) =>
        /\ pc = "failed"
        /\ error = "ValueError"
        /\ z0 = Unassigned
        /\ calls = <<>>
        /\ output = <<>>

C5_Witness ==
    /\ valuations = <<"1", ",", "a", ",", "2">>
    /\ pc = "failed"
    /\ error = "ValueError"

NewtonRaised == Len(calls) = 2 /\ calls[2].raised

\* C6: after newton raises, the run goes on without error: the result and
\* revenue of steepest descent are kept, the analytical optimum and the
\* steepest-descent error are reported, the Newton comparison is replaced by
\* the "did not produce a solution" line; the Newton error is reported exactly
\* when newton returned a solution, and no unassigned Newton revenue is read.
C6_NewtonFailureContained ==
    /\ error # "NameError"
    /\ NewtonRaised =>
          /\ pc \in {"analytical", "compare", "done"}
          /\ error = NoError
          /\ z_sd = Bound(calls[1].ret)
          /\ revenue_sd = Bound(np_sum(PayPart(calls[1].ret, ValueOf(n))))
          /\ revenue_newton = Unassigned
          /\ pc \in {"compare", "done"} => HasLine("optimal_revenue")
          /\ pc = "done" =>
                /\ HasLine("sd_error")
                /\ HasLine("newton_no_solution")
                /\ ~HasLine("newton_error")
    /\ pc = "done" =>
          /\ HasLine("newton_error") <=> ~calls[2].raised
          /\ HasLine("newton_no_solution") <=> calls[2].raised
          /\ HasLine("newton_error") => revenue_newton # Unassigned

C6_Witness ==
    /\ NewtonRaised
    /\ pc = "done"
    /\ HasLine("newton_no_solution")
    /\ HasLine("sd_error")
    /\ ValueOf(v) = <<One, Two>>

\* C7: the initial guess the driver builds is feasible for the valuations it
\* accepted: allocations in [0,1] summing to exactly 1, payments non-negative,
\* p_i <= v_i * x_i, and so a zero penalty.
C7_InitialGuessFeasible ==
    z0 # Unassigned =>
        /\ Feasible(ValueOf(z0), ValueOf(v))
        /\ np_sum(AllocPart(ValueOf(z0), ValueOf(n))) = One
        /\ penalty(ValueOf(z0), ValueOf(v)) = Zero

\* C8: a run with mu <= 0 is rejected with an error before any solver is
\* invoked.
C8_NonPositiveMuRejected ==
    RLeq(mu, Zero) => calls = <<>>

\* C9: steepest_descent is invoked once, then newton once, both with the same
\* objective and the same initial guess z0; no solver is invoked again, and
\* the analytical optimum and the comparison come only after both calls.
C9_SolversOnceInOrder ==
    /\ Len(calls) <= 2
    /\ Len(calls) >= 1 =>
          /\ calls[1].fn = "steepest_descent"
          /\ calls[1].objective = [v |-> ValueOf(v), mu |-> mu]
          /\ calls[1].initial = ValueOf(z0)
    /\ Len(calls) = 2 =>
          /\ calls[2].fn = "newton"
          /\ calls[2].objective = calls[1].objective
          /\ calls[2].initial = calls[1].initial
    /\ pc = "sd" => Len(calls) = 0
    /\ pc = "newton" => Len(calls) = 1
    /\ pc \in {"analytical", "compare", "done"} => Len(calls) = 2
    /\ (z_opt # Unassigned \/ HasLine("analytical_header")
           \/ HasLine("comparison_header")) => Len(calls) = 2

C9_Witness ==
    /\ pc = "done"
    /\ Len(calls) = 2
    /\ calls[2].raised
    /\ calls[1].ret # calls[1].initial
    /\ Len(ValueOf(v)) = 2

=============================================================================
